---- MODULE Spec2Model ----
(***************************************************************************)
(* Model of the callback pipeline of callbacks.go: one processor with its  *)
(* declaration list (p.callbacks), its compiled handler list (p.fns), the  *)
(* resolver sortCallbacks with its recursive closure sortCallback, the     *)
(* Execute loop, and the manager with its six processors.                  *)
(*                                                                         *)
(* Conventions.  Go slices are TLA+ sequences, so positions are 1-based    *)
(* and getRIndex returns NotFound (0) where the Go code returns -1.  The   *)
(* empty string "" is Go's zero string: no before / after constraint.  A   *)
(* handler is a number; NilFn is the nil func.  *callback pointers are the *)
(* positions of the declarations in p.callbacks (sortCallbacks receives    *)
(* p.callbacks itself, so cs[idx] is p.callbacks[idx]).                    *)
(***************************************************************************)
EXTENDS Integers, Sequences, FiniteSets, TLC

VARIABLES callbacks, fns, err, calls, pc, efns, ei, ran, stmt, dbError,
          processors, heap

vars == <<callbacks, fns, err, calls, pc, efns, ei, ran, stmt, dbError,
          processors, heap>>
regVars == <<callbacks, fns, err, calls>>
execVars == <<pc, efns, ei, ran, stmt, dbError>>
mgrVars == <<processors, heap>>

\* ------------------------------------------------------------------ bounds
\* declarations per processor under Spec, SpecDeep and SpecExec
MaxDecls == 3
MaxDeepDecls == 4
MaxExecDecls == 3
MaxRaceDecls == 3
\* declarations in all processors of the manager under SpecMgr
MaxMgrDecls == 3

Names == {"a", "b", "c"}
Targets == Names \cup {""}
NotFound == 0
NilFn == 0

\* ------------------------------------------------------- pure helpers
RECURSIVE getRIndexFrom(_, _, _)
getRIndexFrom(strs, str, i) ==
  IF i = 0 THEN NotFound
  ELSE IF strs[i] = str THEN i
  ELSE getRIndexFrom(strs, str, i - 1)

getRIndex(strs, str) == getRIndexFrom(strs, str, Len(strs))

namesOf(cs) == [i \in 1..Len(cs) |-> cs[i].name]

insertAt(sorted, idx, name) ==
  SubSeq(sorted, 1, idx - 1) \o <<name>> \o SubSeq(sorted, idx, Len(sorted))

\* --------------------------------------------------- the ordering resolver
\* The resolver's working state: cs is the declaration slice (its elements
\* are pointers, so the writes to before/after persist in p.callbacks),
\* sorted the order built so far, err "nil", "conflict", or "overflow" when
\* the recursion of sortCallback never returns (the Go runtime then ends the
\* process with a fatal stack overflow).
Conf(st, i) == <<i, st.cs, st.sorted>>

\* lines 208-220: the before constraint of cs[i]
beforeBlock(st, names, i) ==
  LET c == st.cs[i]
      sortedIdx == getRIndex(st.sorted, c.before)
      curIdx == getRIndex(st.sorted, c.name)
      idx == getRIndex(names, c.before)
  IN IF c.before = "" THEN st
     ELSE IF sortedIdx # NotFound
          THEN IF curIdx = NotFound
               THEN [st EXCEPT !.sorted = insertAt(st.sorted, sortedIdx, c.name)]
               ELSE IF curIdx > sortedIdx
                    THEN [st EXCEPT !.err = "conflict"]
                    ELSE st
          ELSE IF idx # NotFound
               THEN [st EXCEPT !.cs[idx].after = c.name]
               ELSE st

\* a resolver that appends the name behind a placed after target whether or
\* not the name is placed already
afterPlacedAlways(st, i, sortedIdx) ==
  [st EXCEPT !.sorted = Append(st.sorted, st.cs[i].name)]

\* lines 223-229: the after target is already placed
afterPlaced(st, i, sortedIdx) ==
  LET c == st.cs[i]
      curIdx == getRIndex(st.sorted, c.name)
  IN IF curIdx = NotFound
     THEN [st EXCEPT !.sorted = Append(st.sorted, c.name)]
     ELSE IF curIdx < sortedIdx
          THEN [st EXCEPT !.err = "conflict"]
          ELSE st

\* a resolver that turns the after target round for good: the target loses
\* the after it was registered with
setAfterBeforeOnce(st, i, idx) ==
  IF st.cs[idx].before = ""
  THEN [st EXCEPT !.cs[idx].before = st.cs[i].name, !.cs[idx].after = ""]
  ELSE st

\* lines 233-237: the after target exists but is not placed
setAfterBefore(st, i, idx) ==
  IF st.cs[idx].before = ""
  THEN [st EXCEPT !.cs[idx].before = st.cs[i].name]
  ELSE st

\* a resolver that puts an unplaced name in front of the placed ones
appendLastInFront(st, i) ==
  IF getRIndex(st.sorted, st.cs[i].name) = NotFound
  THEN [st EXCEPT !.sorted = <<st.cs[i].name>> \o st.sorted]
  ELSE st

\* lines 249-254: append the name when it is still unplaced
appendLast(st, i) ==
  IF getRIndex(st.sorted, st.cs[i].name) = NotFound
  THEN [st EXCEPT !.sorted = Append(st.sorted, st.cs[i].name)]
  ELSE st

\* lines 207-255.  stack holds the configurations (declaration, cs, sorted)
\* at entry of the calls of sortCallback now on the Go call stack.  The
\* closure is deterministic in its configuration, so a call entered in a
\* configuration that is already on the stack recurses without end.
RECURSIVE sortCallback(_, _, _, _)
sortCallback(st, names, i, stack) ==
  IF Conf(st, i) \in stack THEN [st EXCEPT !.err = "overflow"]
  ELSE
  LET inner == stack \cup {Conf(st, i)}
      s1 == beforeBlock(st, names, i)
      c == s1.cs[i]
      sortedIdx == getRIndex(s1.sorted, c.after)
      idx == getRIndex(names, c.after)
      s2 == setAfterBefore(s1, i, idx)
      s3 == sortCallback(s2, names, idx, inner)
      s4 == sortCallback(s3, names, i, inner)
  IN IF s1.err # "nil" THEN s1
     ELSE IF c.after = "" THEN appendLast(s1, i)
     ELSE IF sortedIdx # NotFound
          THEN LET p1 == afterPlaced(s1, i, sortedIdx)
               IN IF p1.err # "nil" THEN p1 ELSE appendLast(p1, i)
          ELSE IF idx # NotFound
               THEN IF s3.err # "nil" THEN s3
                    ELSE IF s4.err # "nil" THEN s4
                    ELSE appendLast(s4, i)
               ELSE appendLast(s1, i)

\* lines 257-261: the loop over cs, left at the first error
RECURSIVE sortLoop(_, _, _)
sortLoop(st, names, i) ==
  IF i > Len(st.cs) THEN st
  ELSE LET s1 == sortCallback(st, names, i, {})
       IN IF s1.err # "nil" THEN s1 ELSE sortLoop(s1, names, i + 1)

\* a resolver that looks the handler up by first occurrence of the name
RECURSIVE getLIndexFrom(_, _, _)
getLIndexFrom(strs, str, i) ==
  IF i > Len(strs) THEN NotFound
  ELSE IF strs[i] = str THEN i
  ELSE getLIndexFrom(strs, str, i + 1)

liveHandlerFirst(cs, names, name) ==
  LET idx == getLIndexFrom(names, name, 1)
  IN IF ~cs[idx].remove THEN <<cs[idx].handler>> ELSE <<>>

\* lines 263-267: the handler a sorted name contributes, if any
liveHandler(cs, names, name) ==
  LET idx == getRIndex(names, name)
  IN IF ~cs[idx].remove THEN <<cs[idx].handler>> ELSE <<>>

RECURSIVE collectFns(_, _, _, _)
collectFns(cs, names, sorted, k) ==
  IF k > Len(sorted) THEN <<>>
  ELSE liveHandler(cs, names, sorted[k]) \o collectFns(cs, names, sorted, k + 1)

\* lines 193-270: the declarations as the run leaves them, the handler list
\* (nil when the loop returned an error) and the error
sortCallbacks(cs) ==
  LET names == namesOf(cs)
      st == sortLoop([cs |-> cs, sorted |-> <<>>, err |-> "nil"], names, 1)
  IN [cs |-> st.cs,
      sorted |-> st.sorted,
      fns |-> IF st.err = "nil" THEN collectFns(st.cs, names, st.sorted, 1) ELSE <<>>,
      err |-> st.err]

\* ------------------------------------------------------------ the processor
\* line 138: does compile keep the declaration in its local slice
matches(c) == c.match = "nil" \/ c.match = "true"

\* lines 136-141: the local slice callbacks of compile
filtered(cs) == SelectSeq(cs, matches)

\* line 143: the slice compile hands to sortCallbacks
compileInput(cs) == cs

\* lines 135-147
compile(cs) == sortCallbacks(compileInput(cs))

\* lines 38-47: a declaration under construction, as Before / After / Match
\* leave it (lines 111-121 and 149-157)
Builder(before, after, match) ==
  [name |-> "", before |-> before, after |-> after, remove |-> FALSE,
   replace |-> FALSE, match |-> match, handler |-> NilFn]

\* the builders the registration actions draw from: any pair of constraints
\* without a predicate, or a predicate without constraints
Builders ==
  {Builder(b, a, "nil") : b \in Targets, a \in Targets}
    \cup {Builder("", "", m) : m \in {"true", "false"}}
PlainBuilders == {Builder("", "", "nil")}

\* the handler passed to the next Register / Replace: a func value of its own
NewFn == Len(callbacks) + 1

\* the process runs: no stack overflow in the resolver and no fault in a
\* handler call
Alive == err # "overflow" /\ pc # "fault"

\* lines 162-163, 170-171, 179-180: append the declaration and compile
appendAndCompile(c, kind) ==
  \E r \in {compile(Append(callbacks, c))} :
     /\ callbacks' = r.cs
     /\ fns' = IF r.err = "overflow" THEN fns ELSE r.fns
     /\ err' = r.err
     /\ calls' = Append(calls, [kind |-> kind, name |-> c.name, before |-> c.before,
                                after |-> c.after, match |-> c.match,
                                handler |-> c.handler])

\* lines 159-164 (and 123-125 for the plain builder)
Register(b, name, fn, max) ==
  /\ Alive /\ Len(callbacks) < max
  /\ appendAndCompile([b EXCEPT !.name = name, !.handler = fn], "register")
  /\ UNCHANGED execVars
  /\ UNCHANGED mgrVars

\* lines 166-172 (and 127-129)
Remove(b, name, max) ==
  /\ Alive /\ Len(callbacks) < max
  /\ appendAndCompile([b EXCEPT !.name = name, !.remove = TRUE], "remove")
  /\ UNCHANGED execVars
  /\ UNCHANGED mgrVars

\* lines 174-181 (and 131-133)
Replace(b, name, fn, max) ==
  /\ Alive /\ Len(callbacks) < max
  /\ appendAndCompile([b EXCEPT !.name = name, !.handler = fn, !.replace = TRUE], "replace")
  /\ UNCHANGED execVars
  /\ UNCHANGED mgrVars

\* lines 102-109: the scan from the newest declaration to the oldest for one
\* of that name that is no tombstone
RECURSIVE GetFrom(_, _, _)
GetFrom(cs, name, i) ==
  IF i = 0 THEN NilFn
  ELSE IF cs[i].name = name /\ ~cs[i].remove THEN cs[i].handler
  ELSE GetFrom(cs, name, i - 1)

Get(name) == GetFrom(callbacks, name, Len(callbacks))

\* --------------------------------------------------------------- Execute
NoStmt == [nil |-> TRUE, model |-> FALSE, parse |-> "ok", table |-> "", Error |-> <<>>]

\* db.AddError: the error joins those the statement already carries
AddError(s, e) == [s EXCEPT !.Error = Append(s.Error, e)]

\* an engine that reports the parse failure only for an unsupported data
\* type without table name
parseErrorAddedUnsupportedOnly(parse, table) ==
  parse = "unsupported" /\ table = ""

\* line 81: is the parse failure added to the call's error
parseErrorAdded(parse, table) ==
  parse # "ok" /\ (parse # "unsupported" \/ table = "")

\* lines 74-86: the statement is prepared; model says whether stmt.Model is
\* non-nil once it has defaulted to stmt.Dest
ExecuteBegin(hasStmt, model, parse, table) ==
  /\ Alive /\ pc = "idle"
  /\ stmt' = IF ~hasStmt THEN NoStmt
             ELSE LET s == [nil |-> FALSE, model |-> model, parse |-> parse,
                            table |-> table, Error |-> <<>>]
                  IN IF model /\ parseErrorAdded(parse, table)
                     THEN AddError(s, "parse") ELSE s
  /\ pc' = "range"
  /\ ran' = <<>>
  /\ dbError' = <<>>
  /\ UNCHANGED <<efns, ei>>
  /\ UNCHANGED regVars
  /\ UNCHANGED mgrVars

\* line 88: range evaluates p.fns once
ExecuteRange ==
  /\ Alive /\ pc = "range"
  /\ efns' = fns
  /\ ei' = 1
  /\ pc' = "loop"
  /\ UNCHANGED <<ran, stmt, dbError>>
  /\ UNCHANGED regVars
  /\ UNCHANGED mgrVars

\* an engine that leaves the loop once a handler has reported an error
ExecuteCallStopOnError(fails) ==
  /\ Alive /\ pc = "loop" /\ ei <= Len(efns) /\ efns[ei] # NilFn
  /\ ran' = Append(ran, efns[ei])
  /\ stmt' = IF fails /\ ~stmt.nil THEN AddError(stmt, efns[ei]) ELSE stmt
  /\ ei' = IF fails THEN Len(efns) + 1 ELSE ei + 1
  /\ UNCHANGED <<pc, efns, dbError>>
  /\ UNCHANGED regVars
  /\ UNCHANGED mgrVars

\* line 89: the next handler runs; it may report an error on the statement
ExecuteCall(fails) ==
  /\ Alive /\ pc = "loop" /\ ei <= Len(efns) /\ efns[ei] # NilFn
  /\ ran' = Append(ran, efns[ei])
  /\ stmt' = IF fails /\ ~stmt.nil THEN AddError(stmt, efns[ei]) ELSE stmt
  /\ ei' = ei + 1
  /\ UNCHANGED <<pc, efns, dbError>>
  /\ UNCHANGED regVars
  /\ UNCHANGED mgrVars

\* line 89 when the slice element is no func value: the call faults and the
\* process ends
ExecuteFault ==
  /\ Alive /\ pc = "loop" /\ ei <= Len(efns) /\ efns[ei] = NilFn
  /\ pc' = "fault"
  /\ UNCHANGED <<efns, ei, ran, stmt, dbError>>
  /\ UNCHANGED regVars
  /\ UNCHANGED mgrVars

\* lines 88 and 143 without synchronisation.  p.fns is a slice header (array
\* pointer, length); compile writes it (line 143) while range reads it
\* (line 88), and nothing orders the two, so the read may take the pointer
\* of one list and the length of the other.  What range then walks is the
\* array p up to length l; an element past the end of the array is no func
\* value.
tornRead(p, l) == [k \in 1..l |-> IF k <= Len(p) THEN p[k] ELSE NilFn]
RangeReads(old, new) ==
  {tornRead(p, l) : p \in {old, new}, l \in {Len(old), Len(new)}}

\* a registration call in another goroutine whose compile writes p.fns while
\* Execute evaluates range p.fns
raceRange(c, kind, max) ==
  /\ Alive /\ pc = "range" /\ Len(callbacks) < max
  /\ appendAndCompile(c, kind)
  /\ efns' \in RangeReads(fns, fns')
  /\ ei' = 1
  /\ pc' = "loop"
  /\ UNCHANGED <<ran, stmt, dbError>>
  /\ UNCHANGED mgrVars

\* lines 92-99: the result is copied up to the caller
ExecuteEnd ==
  /\ Alive /\ pc = "loop" /\ ei > Len(efns)
  /\ dbError' = IF stmt.nil THEN dbError ELSE stmt.Error
  /\ pc' = "idle"
  /\ UNCHANGED <<efns, ei, ran, stmt>>
  /\ UNCHANGED regVars
  /\ UNCHANGED mgrVars

\* ------------------------------------------------------------ the manager
\* lines 14-25: the keys of the map, and the map itself.  processors holds a
\* *processor for each key; the processor a key is given is named after the
\* line of the literal that creates it, and heap holds the processors.
Kinds == {"create", "query", "update", "delete", "row", "raw"}

\* a manager whose keys all hold the processor created first
initializeCallbacksShared == [k \in Kinds |-> "create"]

initializeCallbacks == [k \in Kinds |-> k]

\* &processor{db: db}: no declarations, no handlers
NewProcessor == [callbacks |-> <<>>, fns |-> <<>>, err |-> "nil"]

\* lines 49-71: the accessors
Create == processors["create"]
Query == processors["query"]
Update == processors["update"]
Delete == processors["delete"]
Row == processors["row"]
Raw == processors["raw"]
Accessors == {Create, Query, Update, Delete, Row, Raw}

\* the declarations held by the processors of the manager
RECURSIVE SumLen(_)
SumLen(ps) ==
  IF ps = {} THEN 0
  ELSE LET p == CHOOSE q \in ps : TRUE
       IN Len(heap[p].callbacks) + SumLen(ps \ {p})

\* lines 123-133 on the processor p an accessor returned: the declaration is
\* appended to p.callbacks and p is compiled
mgrAppendAndCompile(p, c) ==
  /\ SumLen(DOMAIN heap) < MaxMgrDecls
  /\ \E r \in {compile(Append(heap[p].callbacks, c))} :
        heap' = [heap EXCEPT ![p] = [callbacks |-> r.cs, fns |-> r.fns, err |-> r.err]]
  /\ UNCHANGED processors
  /\ UNCHANGED <<regVars, execVars>>

MgrRegister ==
  \E p \in Accessors, b \in PlainBuilders, n \in Names :
    mgrAppendAndCompile(p, [b EXCEPT !.name = n,
                                     !.handler = Len(heap[p].callbacks) + 1])
MgrRemove ==
  \E p \in Accessors, b \in PlainBuilders, n \in Names :
    mgrAppendAndCompile(p, [b EXCEPT !.name = n, !.remove = TRUE])
MgrReplace ==
  \E p \in Accessors, b \in PlainBuilders, n \in Names :
    mgrAppendAndCompile(p, [b EXCEPT !.name = n,
                                     !.handler = Len(heap[p].callbacks) + 1,
                                     !.replace = TRUE])

\* ------------------------------------------------------- specifications
\* lines 14-25: a processor starts without declarations and handlers
Init ==
  /\ callbacks = <<>>
  /\ fns = <<>>
  /\ err = "nil"
  /\ calls = <<>>
  /\ pc = "idle"
  /\ efns = <<>>
  /\ ei = 1
  /\ ran = <<>>
  /\ stmt = NoStmt
  /\ dbError = <<>>
  /\ processors = initializeCallbacks
  /\ heap = [p \in Kinds |-> NewProcessor]

\* the registry: every builder, no call in flight
DoRegister == \E b \in Builders, n \in Names : Register(b, n, NewFn, MaxDecls)
DoRemove == \E b \in Builders, n \in Names : Remove(b, n, MaxDecls)
DoReplace == \E b \in Builders, n \in Names : Replace(b, n, NewFn, MaxDecls)

Next == DoRegister \/ DoRemove \/ DoReplace

Spec == Init /\ [][Next]_vars

\* longer histories: constraints on other names with Register, and the
\* processor's own Remove and Replace (lines 127-133)
DeepBuilders(n) ==
  {Builder(b, a, "nil") : b \in Targets \ {n}, a \in Targets \ {n}}
DeepRegister == \E n \in Names : \E b \in DeepBuilders(n) : Register(b, n, NewFn, MaxDeepDecls)
DeepRemove == \E b \in PlainBuilders, n \in Names : Remove(b, n, MaxDeepDecls)
DeepReplace == \E b \in PlainBuilders, n \in Names : Replace(b, n, NewFn, MaxDeepDecls)

NextDeep == DeepRegister \/ DeepRemove \/ DeepReplace

SpecDeep == Init /\ [][NextDeep]_vars

\* calls of Execute, with plain registrations going on
ExecRegister == \E b \in PlainBuilders, n \in Names : Register(b, n, NewFn, MaxExecDecls)
ExecRemove == \E b \in PlainBuilders, n \in Names : Remove(b, n, MaxExecDecls)
ExecReplace == \E b \in PlainBuilders, n \in Names : Replace(b, n, NewFn, MaxExecDecls)
DoExecuteBegin ==
  \E hasStmt \in BOOLEAN, model \in BOOLEAN,
     parse \in {"ok", "unsupported", "other"}, table \in {"", "t"} :
       /\ (~hasStmt => ~model)
       /\ (~model => parse = "ok" /\ table = "")
       /\ ExecuteBegin(hasStmt, model, parse, table)
DoExecuteCall == \E fails \in BOOLEAN : ExecuteCall(fails)

NextExec ==
  \/ ExecRegister \/ ExecRemove \/ ExecReplace
  \/ DoExecuteBegin \/ ExecuteRange \/ DoExecuteCall \/ ExecuteEnd

SpecExec == Init /\ [][NextExec]_vars

\* registration calls from another goroutine: those of SpecExec, ordered
\* with the steps of Execute, and those that race with the read of p.fns
RaceRegister ==
  \E b \in PlainBuilders, n \in Names :
    raceRange([b EXCEPT !.name = n, !.handler = NewFn], "register", MaxRaceDecls)
RaceRemove ==
  \E b \in PlainBuilders, n \in Names :
    raceRange([b EXCEPT !.name = n, !.remove = TRUE], "remove", MaxRaceDecls)
RaceReplace ==
  \E b \in PlainBuilders, n \in Names :
    raceRange([b EXCEPT !.name = n, !.handler = NewFn, !.replace = TRUE], "replace",
              MaxRaceDecls)

NextRace ==
  \/ ExecRegister \/ ExecRemove \/ ExecReplace
  \/ RaceRegister \/ RaceRemove \/ RaceReplace
  \/ DoExecuteBegin \/ ExecuteRange \/ DoExecuteCall \/ ExecuteFault \/ ExecuteEnd

SpecRace == Init /\ [][NextRace]_vars

\* the six processors of a manager, with registration calls on each
NextMgr == MgrRegister \/ MgrRemove \/ MgrReplace

SpecMgr == Init /\ [][NextMgr]_vars

\* ------------------------------------------------ vocabulary of the properties
\* positions of handler h in a handler list
Positions(list, h) == {k \in 1..Len(list) : list[k] = h}
InList(list, h) == Positions(list, h) # {}
PosIn(list, h) == CHOOSE k \in Positions(list, h) : TRUE

\* the calls that registered a handler (Register or Replace)
Decls == {i \in 1..Len(calls) : calls[i].kind # "remove"}
\* the last call made, and whether it returned without error
Last == calls[Len(calls)]
Called == Len(calls) > 0
Succeeded == Called /\ err = "nil"

\* C1: after a successful compile, a declaration registered with before=B
\* whose handler is in the compiled list stands before the handler of B when
\* that is in the list too, and a declaration registered with after=B stands
\* after it.
C1_ConstraintsRespected ==
  Succeeded =>
    \A i \in Decls, j \in Decls :
      (calls[i].name # calls[j].name /\ InList(fns, i) /\ InList(fns, j)) =>
        /\ (calls[i].before = calls[j].name => PosIn(fns, i) < PosIn(fns, j))
        /\ (calls[i].after = calls[j].name => PosIn(fns, i) > PosIn(fns, j))

\* C2: a call that returns an ordering conflict leaves the compiled list as it
\* was before the call.
C2_FailedCompileKeepsFns ==
  [][err' = "conflict" => fns' = fns]_vars

\* C3: every call of the resolver returns, with an order or a conflict; it
\* never recurses without end.
C3_ResolverTerminates == err \in {"nil", "conflict"}

\* C4: the Register call that completes a direct before-cycle (B before A
\* when A before B is declared) returns an ordering conflict.
C4_DirectCycleConflict ==
  (Called /\ Last.kind = "register" /\ Last.before # "" /\ Last.before # Last.name
     /\ \E i \in 1..(Len(calls) - 1) :
           /\ calls[i].kind = "register"
           /\ calls[i].name = Last.before
           /\ calls[i].before = Last.name)
    => err = "conflict"

\* C5: a declaration whose match predicate is false contributes no handler
\* to the compiled list.
C5_UnmatchedNotCompiled ==
  \A i \in Decls : calls[i].match = "false" => ~InList(fns, i)

\* C6: Execute calls the handlers of the compiled list one after the other,
\* each once and in order, whatever errors they report, and when it returns
\* the caller's error is the error accumulated on the statement.
C6_ChainRunsToEnd ==
  /\ pc = "loop" => ran = SubSeq(efns, 1, ei - 1)
  /\ pc = "idle" => /\ ran = efns
                    /\ ~stmt.nil => dbError = stmt.Error

\* C6 witness: a call of three handlers has returned, the first handler
\* reported an error, and the caller sees it.
C6_Witness ==
  /\ pc = "idle" /\ Len(efns) = 3 /\ ran = efns
  /\ ~stmt.nil /\ stmt.Error = <<efns[1]>> /\ dbError = stmt.Error

\* the step just taken appended a call, NewLast
NewCall == Len(calls') = Len(calls) + 1
NewLast == calls'[Len(calls')]
\* positions of the compiled list that hold a handler registered under name n
NamePositions(n) == {k \in 1..Len(fns) : calls[fns[k]].name = n}

\* C7 as stated: a successful Register of a name that has a handler in the
\* compiled list keeps that earlier handler in the list.
C7_EarlierHandlerKept ==
  [][(NewCall /\ NewLast.kind = "register" /\ err' = "nil")
       => \A k \in NamePositions(NewLast.name) : InList(fns', fns[k])]_vars

\* C7 amended: after a successful Register the compiled list holds the
\* handler just registered and no handler of an earlier declaration of that
\* name: the newer handler wins, as with Replace.
C7_NewerHandlerWins ==
  (Succeeded /\ Last.kind = "register") =>
    /\ InList(fns, Last.handler)
    /\ \A i \in 1..(Len(calls) - 1) : calls[i].name = Last.name => ~InList(fns, i)

\* C7 witness: a constraint-free Register of a name whose previous call was a
\* Register too has compiled, and its handler is in the list.
C7_Witness ==
  /\ Succeeded /\ Len(calls) >= 2
  /\ Last.kind = "register" /\ Last.before = "" /\ Last.after = ""
  /\ calls[Len(calls) - 1].kind = "register"
  /\ calls[Len(calls) - 1].name = Last.name
  /\ InList(fns, Last.handler)

\* C8: Replace(N, H2) on the processor, for a name N that has a handler in
\* the compiled list, puts H2 at the position of that handler and leaves the
\* rest of the list as it was.
C8_ReplaceInPlace ==
  [][(NewCall /\ NewLast.kind = "replace" /\ NewLast.before = "" /\ NewLast.after = "")
       => \A k \in NamePositions(NewLast.name) :
            fns' = [fns EXCEPT ![k] = NewLast.handler]]_vars

\* C9: Remove(X) on the processor, for a name X that has a handler in the
\* compiled list, returns no error and leaves the compiled list without the
\* handler of X and with the other handlers in the order they had.
dropAt(list, k) ==
  [i \in 1..(Len(list) - 1) |-> IF i < k THEN list[i] ELSE list[i + 1]]
C9_RemoveKeepsOrder ==
  [][(NewCall /\ NewLast.kind = "remove" /\ NewLast.before = "" /\ NewLast.after = "")
       => \A k \in NamePositions(NewLast.name) :
            err' = "nil" /\ fns' = dropAt(fns, k)]_vars

\* the names declared so far, and whether some total order of them meets
\* every declared constraint whose target is among them
DeclaredNames == {calls[i].name : i \in 1..Len(calls)}
Meets(pos) ==
  \A i \in 1..Len(calls) :
    /\ calls[i].before \in DeclaredNames => pos[calls[i].name] < pos[calls[i].before]
    /\ calls[i].after \in DeclaredNames => pos[calls[i].name] > pos[calls[i].after]
Satisfiable ==
  \E pos \in [DeclaredNames -> 1..Cardinality(DeclaredNames)] :
    /\ \A m, n \in DeclaredNames : m # n => pos[m] # pos[n]
    /\ Meets(pos)

\* C10: a call returns an ordering conflict only when no total order of the
\* declared names meets all declared constraints.
C10_ConflictOnlyIfContradictory ==
  err = "conflict" => ~Satisfiable

\* the declarations as stored differ from what the calls declared: a run of
\* the resolver rewrote a before or after field
Rewritten ==
  \E i \in 1..Len(calls) :
    callbacks[i].before # calls[i].before \/ callbacks[i].after # calls[i].after

\* C11: running compile again on the processor, without a new registration,
\* gives the same handler list and the same error as the run before it,
\* although that run may have rewritten before / after fields.
C11_RecompileSame ==
  Alive => \E r \in {compile(callbacks)} : r.fns = fns /\ r.err = err

\* C11 witness: a compile that rewrote a stored field has succeeded with
\* three handlers, one declaration being a tombstone or a replace.
C11_Witness ==
  /\ Succeeded /\ Rewritten /\ Len(fns) = 3
  /\ \E i \in 1..Len(calls) : calls[i].kind # "register"

\* the declaration of the Register call just made, without its constraints
plainOf(c) ==
  [name |-> c.name, before |-> "", after |-> "", remove |-> FALSE,
   replace |-> FALSE, match |-> c.match, handler |-> c.handler]
\* t names no declaration of the processor once the call is made
Ghost(t) == t # "" /\ t \notin {calls'[i].name : i \in 1..Len(calls')}

\* C12: a Register whose before / after targets are registered nowhere in
\* the processor returns what the same Register without those constraints
\* returns: the same error and the same compiled list.
C12_GhostConstraintNoOp ==
  [][(/\ NewCall /\ NewLast.kind = "register"
      /\ (NewLast.before # "" \/ NewLast.after # "")
      /\ (NewLast.before # "" => Ghost(NewLast.before))
      /\ (NewLast.after # "" => Ghost(NewLast.after)))
       => \E r \in {compile(Append(callbacks, plainOf(NewLast)))} :
            /\ r.err = err'
            /\ r.err # "overflow" => r.fns = fns']_vars

\* the calls made for name n, and the last of them
CallsOf(n) == {i \in 1..Len(calls) : calls[i].name = n}
LastCallOf(n) == CHOOSE i \in CallsOf(n) : \A j \in CallsOf(n) : j <= i

\* C13: Get(n) returns the handler of the last call made for n when that call
\* is a Register or a Replace, and no handler when n was never registered or
\* when the last call made for n is a Remove.
C13_GetLiveHandler ==
  Alive =>
    \A n \in Names :
      Get(n) = IF CallsOf(n) = {} \/ calls[LastCallOf(n)].kind = "remove"
               THEN NilFn
               ELSE calls[LastCallOf(n)].handler

C15_DeclaredAfterKept ==
  Succeeded =>
    \A i \in 1..Len(calls) :
      calls[i].after # "" => callbacks[i].after = calls[i].after

\* the names whose last call is a Register or a Replace
LiveNames ==
  {n \in Names : CallsOf(n) # {} /\ calls[LastCallOf(n)].kind # "remove"}

\* C16: after a successful compile the compiled list holds exactly one
\* handler for each name whose last declaration is no tombstone and none
\* for any other name, so its length is the number of those names.
C16_OneHandlerPerLiveName ==
  Succeeded =>
    /\ Len(fns) = Cardinality(LiveNames)
    /\ \A n \in LiveNames : Cardinality(NamePositions(n)) = 1

\* C16 witness: a successful compile of four declarations, with a live name
\* declared twice and a name whose last declaration is a tombstone; the
\* list holds two handlers.
C16_Witness ==
  /\ Succeeded /\ Len(calls) = 4 /\ Len(fns) = 2
  /\ \E n \in LiveNames : Cardinality(CallsOf(n)) = 2
  /\ \E m \in Names \ LiveNames : CallsOf(m) # {}

\* some call made so far uses n as its name or as a before / after target
Referenced(n) ==
  \E i \in 1..Len(calls) :
    calls[i].name = n \/ calls[i].before = n \/ calls[i].after = n

\* C17: once a call has returned an ordering conflict, a Register without
\* constraints of a name that no declaration uses or references returns no
\* error, and the compiled list holds its handler.
C17_FailureConfined ==
  [][(/\ NewCall /\ err = "conflict"
      /\ NewLast.kind = "register" /\ NewLast.before = "" /\ NewLast.after = ""
      /\ ~Referenced(NewLast.name))
       => err' = "nil" /\ InList(fns', NewLast.handler)]_vars

\* every call so far is a Register without constraints, each of a name of
\* its own
AllPlainDistinct ==
  \A i \in 1..Len(calls) :
    /\ calls[i].kind = "register" /\ calls[i].before = "" /\ calls[i].after = ""
    /\ \A j \in 1..Len(calls) : i # j => calls[i].name # calls[j].name

\* C18: declarations registered without constraints under distinct names,
\* no other declaration present, compile without error to their handlers in
\* registration order; so each further such Register appends its handler.
C18_PlainInRegistrationOrder ==
  AllPlainDistinct =>
    err = "nil" /\ fns = [i \in 1..Len(calls) |-> calls[i].handler]

\* C18 witness: three such registrations have compiled to three handlers.
C18_Witness ==
  AllPlainDistinct /\ Len(calls) = 3 /\ Len(fns) = 3 /\ fns[3] = Last.handler

\* C19: with registration calls interleaved, an Execute in flight runs the
\* list that was compiled when its loop began: the list range takes is the
\* compiled list of that moment, it stays the list of the call, the loop
\* calls its handlers one by one in order, and the call returns once all of
\* them ran.
C19_RunsListOfLoopStart ==
  [][/\ (pc = "range" /\ pc' = "loop") => efns' \in {fns, fns'}
     /\ pc = "loop" =>
          /\ efns' = efns
          /\ pc' \in {"loop", "idle"}
          /\ ran' # ran => ran' = Append(ran, efns[ei])
          /\ pc' = "idle" => ran = efns]_vars

\* the processor key k stands for, as the accessor of k returns it
ProcessorOf(k) == heap[processors[k]]

\* C20: the six processors are independent.  In every step the keys of the
\* manager are the six kinds and each key keeps its processor; the keys hold
\* six different processors; and a registration call changes the
\* declarations and the compiled list of one processor only, which gains
\* one declaration.
C20_ProcessorsIndependent ==
  [][/\ DOMAIN processors' = Kinds
     /\ processors' = processors
     /\ \A k1, k2 \in Kinds : k1 # k2 => processors[k1] # processors[k2]
     /\ \E k \in Kinds :
          /\ Len(ProcessorOf(k).callbacks') = Len(ProcessorOf(k).callbacks) + 1
          /\ \A o \in Kinds \ {k} :
               /\ ProcessorOf(o).callbacks' = ProcessorOf(o).callbacks
               /\ ProcessorOf(o).fns' = ProcessorOf(o).fns]_vars

\* C20 witness: the create processor holds two handlers, the query
\* processor another list of one handler, the other four none.
C20_Witness ==
  /\ Len(heap[Create].fns) = 2
  /\ Len(heap[Query].fns) = 1
  /\ heap[Query].callbacks[1].name # heap[Create].callbacks[1].name
  /\ \A k \in Kinds \ {"create", "query"} : ProcessorOf(k) = NewProcessor

====
